---- MODULE Spec2Model ----
(***************************************************************************)
(* Marknote: the markdown preview pipeline.                                *)
(*                                                                         *)
(* A string is a sequence of one-character strings, a slice is a sequence  *)
(* (nil and the empty slice are both << >>), a Go index i is i + 1 here.   *)
(*                                                                         *)
(*   SpecRow   one line typed character by character; isSeparatorRow and   *)
(*             parseTableRow applied to it (preview.go).                   *)
(*   Spec      one of the two builds.  Fyne: text typed line by line into  *)
(*             the editor, every change re-rendered by renderMarkdown      *)
(*             (binary table / non-table policy, preview.go).  Gio:        *)
(*             renderMarkdown over a goldmark parse tree (structural       *)
(*             policy).                                                    *)
(***************************************************************************)
EXTENDS Naturals, Integers, Sequences, FiniteSets, TLC

VARIABLES
    line,         \* SpecRow: the line typed so far
    sepResult,    \* SpecRow: isSeparatorRow(line)
    rowCells,     \* SpecRow: parseTableRow(line)
    content,      \* Spec: the editor text
    lines,        \* Spec: splitMarkdownBlocks' lines
    inFence,      \* Spec: splitMarkdownBlocks' inFence
    separatorAt,  \* Spec: splitMarkdownBlocks' separatorAt (the set of its keys)
    isTableLine,  \* Spec: splitMarkdownBlocks' isTableLine
    blocks,       \* Spec: what splitMarkdownBlocks returns
    objects,      \* Spec: previewBox.Objects
    gtext,        \* Gio: the editor text handed to renderMarkdown
    doc,          \* Gio: the top-level children of the parsed document
    previewBlocks,\* Gio: App.previewBlocks
    gpc,          \* Gio: "call" before renderMarkdown ran, "done" after
    disk,         \* SpecApp: the files of the folder, path |-> content
    rootPath,     \* SpecApp: App.rootPath
    currentFile,  \* SpecApp: App.currentFile
    selectedPath, \* SpecApp: App.selectedPath
    modified,     \* SpecApp: App.modified
    loading,      \* SpecApp: App.loading
    modal,        \* SpecApp: the dialog on show (Fyne), App.modal (Gio)
    openFolderCh, \* SpecApp: App.openFolderCh (Gio)
    pickers,      \* SpecApp: the goroutines of promptOpenFolder that have not
                  \*          sent or returned yet (Gio)
    invalidating, \* SpecApp: the goroutines between their send and Invalidate
    invalidated,  \* SpecApp: a frame is requested by window.Invalidate
    status,       \* SpecApp: what the status bar tells
    expanded,     \* SpecApp: FileTree.expanded, the paths mapped to true (Gio)
    visible,      \* SpecApp: FileTree.visible (Gio)
    hoveredIdx,   \* SpecApp: FileTree.hoveredIdx (Gio)
    variant       \* the build that runs: "fyne", "gio" ("row" in SpecRow)

rowVars  == <<line, sepResult, rowCells>>
docVars  == <<content, lines, inFence, separatorAt, isTableLine, blocks, objects>>
treeVars == <<gtext, doc, previewBlocks, gpc>>
chanVars == <<openFolderCh, pickers, invalidating, invalidated>>
ftVars   == <<expanded, visible, hoveredIdx>>
appVars  == <<disk, rootPath, currentFile, selectedPath, modified, loading,
              modal, chanVars, ftVars, status>>
vars     == <<variant, rowVars, docVars, treeVars, appVars>>

(***************************************************************************)
(* Bounds.                                                                 *)
(***************************************************************************)
MaxLen   == 4    \* characters of the line typed in SpecRow
MaxLines == 4    \* lines of the editor text in Spec
MaxNodes == 2    \* top-level nodes of a parse tree (Gio)
MaxRows  == 2    \* rows of a table node
MaxCells == 1    \* cells of a table row

(***************************************************************************)
(* The strings package, as far as preview.go uses it.                      *)
(***************************************************************************)
\* unicode.IsSpace over the characters used here
Space == {" ", "\t", "\n", "\r"}

RECURSIVE TrimLeftSet(_, _)
TrimLeftSet(s, cutset) ==
    IF s = << >> \/ Head(s) \notin cutset THEN s
    ELSE TrimLeftSet(Tail(s), cutset)

RECURSIVE TrimRightSet(_, _)
TrimRightSet(s, cutset) ==
    IF s = << >> \/ s[Len(s)] \notin cutset THEN s
    ELSE TrimRightSet(SubSeq(s, 1, Len(s) - 1), cutset)

\* strings.Trim(s, cutset): every leading and trailing character of cutset
Trim(s, cutset) == TrimRightSet(TrimLeftSet(s, cutset), cutset)

TrimSpace(s) == Trim(s, Space)

Contains(s, ch) == \E i \in DOMAIN s : s[i] = ch

HasPrefix(s, p) == Len(s) >= Len(p) /\ SubSeq(s, 1, Len(p)) = p

\* strings.Split(s, sep) for a one-character sep: always at least one piece
RECURSIVE Split(_, _)
Split(s, sep) ==
    IF ~Contains(s, sep) THEN <<s>>
    ELSE LET i == CHOOSE k \in DOMAIN s :
                      s[k] = sep /\ \A j \in 1..(k - 1) : s[j] # sep
         IN  <<SubSeq(s, 1, i - 1)>> \o Split(SubSeq(s, i + 1, Len(s)), sep)

RECURSIVE Join(_, _)
Join(ss, sep) ==
    IF ss = << >> THEN << >>
    ELSE IF Len(ss) = 1 THEN ss[1]
    ELSE ss[1] \o <<sep>> \o Join(Tail(ss), sep)

(***************************************************************************)
(* preview.go: rows.                                                       *)
(***************************************************************************)
isSeparatorRow(ln) ==
    LET t == TrimSpace(ln) IN
    IF ~Contains(t, "-") THEN FALSE
    ELSE LET t2 == Trim(t, {"|"}) IN
         IF t2 = << >> THEN FALSE
         ELSE LET cells == Split(t2, "|") IN
              \A k \in DOMAIN cells :
                  LET cell == TrimSpace(cells[k]) IN
                  /\ cell # << >>
                  /\ \A i \in DOMAIN cell : cell[i] \in {"-", ":"}
                  /\ Contains(cell, "-")

parseTableRow(ln) ==
    LET parts == Split(Trim(TrimSpace(ln), {"|"}), "|")
    IN  [i \in DOMAIN parts |-> TrimSpace(parts[i])]

\* a cellAt that shows a filler for a missing cell
cellAtFiller(cells, i) == IF i < Len(cells) THEN cells[i + 1] ELSE <<"-">>

cellAt(cells, i) == IF i < Len(cells) THEN cells[i + 1] ELSE << >>

(***************************************************************************)
(* SpecRow.                                                                *)
(***************************************************************************)
RowChars == {"-", ":", "|", " ", "a"}

RowInit ==
    /\ line = << >>
    /\ sepResult = isSeparatorRow(<< >>)
    /\ rowCells = parseTableRow(<< >>)

RowType(ch) ==
    /\ Len(line) < MaxLen
    /\ line' = Append(line, ch)
    /\ sepResult' = isSeparatorRow(line')
    /\ rowCells' = parseTableRow(line')

RowNext == \E ch \in RowChars : RowType(ch)

(***************************************************************************)
(* preview.go: parseTable.                                                 *)
(***************************************************************************)
Max(a, b) == IF a > b THEN a ELSE b

\* the loop of parseTable; st holds headers, dataRows, numCols, separatorSeen
RECURSIVE parseTableLoop(_, _)
parseTableLoop(ls, st) ==
    IF ls = << >> THEN st
    ELSE LET ln == Head(ls) IN
         IF ~Contains(ln, "|") THEN parseTableLoop(Tail(ls), st)
         ELSE IF isSeparatorRow(ln)
         THEN parseTableLoop(Tail(ls), [st EXCEPT !.separatorSeen = TRUE])
         ELSE LET cells == parseTableRow(ln)
                  st1 == IF ~st.separatorSeen
                         THEN [st EXCEPT !.headers = cells]
                         ELSE [st EXCEPT !.dataRows = Append(@, cells)]
              IN  parseTableLoop(Tail(ls),
                      [st1 EXCEPT !.numCols = Max(Len(cells), @)])

parseTable(ls) ==
    LET st == parseTableLoop(ls, [headers |-> << >>, dataRows |-> << >>,
                                  numCols |-> 0, separatorSeen |-> FALSE])
    IN  [headers |-> st.headers, dataRows |-> st.dataRows,
         numCols |-> Max(Len(st.headers), st.numCols)]

(***************************************************************************)
(* preview.go: splitMarkdownBlocks.                                        *)
(***************************************************************************)
\* "bq" stands for the backquote character, which a TLA+ string cannot hold
Tick      == "bq"
Backticks == <<Tick, Tick, Tick>>
Tildes    == <<"~", "~", "~">>

isFenceToggle(ln) ==
    LET t == TrimSpace(ln) IN HasPrefix(t, Backticks) \/ HasPrefix(t, Tildes)

\* a pass that records the flag before the line's own toggle
RECURSIVE fencePassBeforeToggle(_, _)
fencePassBeforeToggle(ls, fenceActive) ==
    IF ls = << >> THEN << >>
    ELSE <<fenceActive>>
         \o fencePassBeforeToggle(Tail(ls),
                IF isFenceToggle(Head(ls)) THEN ~fenceActive ELSE fenceActive)

\* Pass 1: the flag of a line is fenceActive after the line's own toggle
RECURSIVE fencePass(_, _)
fencePass(ls, fenceActive) ==
    IF ls = << >> THEN << >>
    ELSE LET now == IF isFenceToggle(Head(ls)) THEN ~fenceActive ELSE fenceActive
         IN  <<now>> \o fencePass(Tail(ls), now)

\* a pass that tests every line, fenced or not
separatorPassAnyLine(ls, fence) == {i \in DOMAIN ls : isSeparatorRow(ls[i])}

\* Pass 2: the keys of separatorAt
separatorPass(ls, fence) ==
    {i \in DOMAIN ls : ~fence[i] /\ isSeparatorRow(ls[i])}

isBlank(ln) == TrimSpace(ln) = << >>

RECURSIVE walkUp(_, _, _)
walkUp(ls, i, marks) ==
    IF i < 1 \/ isBlank(ls[i]) THEN marks
    ELSE walkUp(ls, i - 1, [marks EXCEPT ![i] = TRUE])

\* a walk that steps over a blank line instead of stopping at it
RECURSIVE walkDownPastBlank(_, _, _)
walkDownPastBlank(ls, i, marks) ==
    IF i > Len(ls) THEN marks
    ELSE walkDownPastBlank(ls, i + 1,
             IF isBlank(ls[i]) THEN marks ELSE [marks EXCEPT ![i] = TRUE])

RECURSIVE walkDown(_, _, _)
walkDown(ls, i, marks) ==
    IF i > Len(ls) \/ isBlank(ls[i]) THEN marks
    ELSE walkDown(ls, i + 1, [marks EXCEPT ![i] = TRUE])

\* a pass whose marks are those of the separator visited last
tablePassLastOnly(ls, order, marks) ==
    IF order = << >> THEN marks
    ELSE LET sepIdx == order[Len(order)] IN
         walkDown(ls, sepIdx + 1,
             walkUp(ls, sepIdx - 1, [marks EXCEPT ![sepIdx] = TRUE]))

\* Pass 3: the separators are visited in the order the map range gives,
\* which Go leaves unspecified: order is any enumeration of the keys
RECURSIVE tablePass(_, _, _)
tablePass(ls, order, marks) ==
    IF order = << >> THEN marks
    ELSE LET sepIdx == Head(order) IN
         tablePass(ls, Tail(order),
             walkDown(ls, sepIdx + 1,
                 walkUp(ls, sepIdx - 1, [marks EXCEPT ![sepIdx] = TRUE])))

Orders(S) ==
    {o \in [1..Cardinality(S) -> S] : \A i, j \in DOMAIN o : o[i] = o[j] => i = j}

\* Pass 4: cur and curIsTable are current and currentIsTable
RECURSIVE groupPass(_, _, _, _, _)
groupPass(ls, marks, i, cur, curIsTable) ==
    IF i > Len(ls)
    THEN IF Len(cur) > 0 THEN <<[isTable |-> curIsTable, lines |-> cur]>>
         ELSE << >>
    ELSE IF marks[i] # curIsTable
    THEN <<[isTable |-> curIsTable, lines |-> cur]>>
         \o groupPass(ls, marks, i + 1, <<ls[i]>>, marks[i])
    ELSE groupPass(ls, marks, i + 1, Append(cur, ls[i]), curIsTable)

\* the grouping without its closing append of current
groupBlocksDropLast(ls, marks) ==
    LET bs == groupPass(ls, marks, 2, <<ls[1]>>, marks[1])
    IN  SubSeq(bs, 1, Len(bs) - 1)

\* a grouping that starts a block at every line
groupBlocksPerLine(ls, marks) ==
    [i \in DOMAIN ls |-> [isTable |-> marks[i], lines |-> <<ls[i]>>]]

groupBlocks(ls, marks) == groupPass(ls, marks, 2, <<ls[1]>>, marks[1])

\* every local of one call, for one visiting order of separatorAt
splitMarkdownBlocks(text, order) ==
    LET ls    == Split(text, "\n")
        fence == fencePass(ls, FALSE)
        marks == tablePass(ls, order, [i \in DOMAIN ls |-> FALSE])
    IN  [lines |-> ls, inFence |-> fence,
         separatorAt |-> separatorPass(ls, fence),
         isTableLine |-> marks, blocks |-> groupBlocks(ls, marks)]

separatorsOf(text) ==
    LET ls == Split(text, "\n") IN separatorPass(ls, fencePass(ls, FALSE))

(***************************************************************************)
(* preview.go: renderMarkdown.  A Fyne object is modelled by what it       *)
(* shows: the markdown text of a RichText, the grid of a table.            *)
(***************************************************************************)
Nil == [kind |-> "nil"]

renderTableBlock(ls) ==
    LET t == parseTable(ls) IN
    IF t.numCols = 0 THEN Nil
    ELSE [kind    |-> "Table",
          numCols |-> t.numCols,
          header  |-> [i \in 1..t.numCols |-> cellAt(t.headers, i - 1)],
          rows    |-> [r \in DOMAIN t.dataRows |->
                          [i \in 1..t.numCols |-> cellAt(t.dataRows[r], i - 1)]]]

\* a rendering that makes a RichText of every non-table block
renderBlockKeepEmpty(block) ==
    IF block.isTable
    THEN LET obj == renderTableBlock(block.lines)
         IN  IF obj # Nil THEN <<obj>> ELSE << >>
    ELSE <<[kind |-> "RichText", text |-> TrimSpace(Join(block.lines, "\n"))]>>

\* what one block adds to objects: nothing, or one object
renderBlock(block) ==
    IF block.isTable
    THEN LET obj == renderTableBlock(block.lines)
         IN  IF obj # Nil THEN <<obj>> ELSE << >>
    ELSE LET text == TrimSpace(Join(block.lines, "\n"))
         IN  IF text # << >> THEN <<[kind |-> "RichText", text |-> text]>>
             ELSE << >>

RECURSIVE renderBlocks(_)
renderBlocks(bs) ==
    IF bs = << >> THEN << >>
    ELSE renderBlock(Head(bs)) \o renderBlocks(Tail(bs))

renderMarkdown(text, order) ==
    IF TrimSpace(text) = << >> THEN << >>
    ELSE renderBlocks(splitMarkdownBlocks(text, order).blocks)

(***************************************************************************)
(* Spec: the editor's OnChanged runs updatePreview on every change.  The   *)
(* text grows by one line's worth of characters or by a line break.        *)
(***************************************************************************)
Chunks ==
    { <<"a", "|", "a", "|", "a">>, <<"a", "|", "a">>, <<"-", "|", "-">>,
      <<"-", "-", "-">>, <<"a">>, <<" ">>, Backticks }

\* the state after OnChanged(text): previewBox.Objects, and beside it the
\* locals of splitMarkdownBlocks(text)
updatePreview(text, order) ==
    LET s == splitMarkdownBlocks(text, order) IN
    /\ content' = text
    /\ lines' = s.lines
    /\ inFence' = s.inFence
    /\ separatorAt' = s.separatorAt
    /\ isTableLine' = s.isTableLine
    /\ blocks' = s.blocks
    /\ objects' = renderMarkdown(text, order)

DocInit ==
    /\ content = << >>
    /\ lines = <<<< >>>>
    /\ inFence = <<FALSE>>
    /\ separatorAt = {}
    /\ isTableLine = <<FALSE>>
    /\ blocks = <<[isTable |-> FALSE, lines |-> <<<< >>>>]>>
    /\ objects = << >>

\* the cursor is at the start of a line
atLineStart(text) == IF text = << >> THEN TRUE ELSE text[Len(text)] = "\n"

EditorType(chunk) ==
    /\ atLineStart(content)
    /\ \E order \in Orders(separatorsOf(content \o chunk)) :
           updatePreview(content \o chunk, order)

EditorNewline ==
    /\ Len(lines) < MaxLines
    /\ \E order \in Orders(separatorsOf(content \o <<"\n">>)) :
           updatePreview(content \o <<"\n">>, order)

DocNext == (\E chunk \in Chunks : EditorType(chunk)) \/ EditorNewline

(***************************************************************************)
(* The Gio variant: renderMarkdown over goldmark's parse tree.  A node is  *)
(* its type and what nodeToBlock reads of it; the text extractText gives   *)
(* for a node is its body.  goldmark itself is a library: the tree it      *)
(* returns for a text is an input.                                         *)
(***************************************************************************)
MaxItems == 2    \* items of a list node

\* start is the numeral of a list's first source line (ast.List.Start)
Node(type, level, ordered, items, rows) ==
    [type |-> type, level |-> level, body |-> "text",
     ordered |-> ordered, start |-> 0, items |-> items, rows |-> rows]

SimpleNodes ==
    {Node("Heading", lv, FALSE, << >>, << >>) : lv \in {1, 2}}
    \cup {Node(t, 0, FALSE, << >>, << >>) :
             t \in {"Paragraph", "FencedCodeBlock", "CodeBlock",
                    "ThematicBreak", "Blockquote", "HTMLBlock"}}

ListItem == [isListItem |-> TRUE, body |-> "item"]

Starts == {1, 7}

ListNodes ==
    {Node("List", 0, FALSE, [i \in 1..n |-> ListItem], << >>) : n \in 0..MaxItems}
    \cup {[Node("List", 0, TRUE, [i \in 1..n |-> ListItem], << >>)
               EXCEPT !.start = st] : n \in 0..MaxItems, st \in Starts}

\* a table's rows as the table extension builds them: the header row first
CellSeqs == UNION {[1..n -> {"cell"}] : n \in 0..MaxCells}

TableRowSeqs ==
    UNION {{[i \in 1..n |-> [isHeader |-> (i = 1), cells |-> cs[i]]] :
                cs \in [1..n -> CellSeqs]} : n \in 0..MaxRows}

TableNodes == {Node("Table", 0, FALSE, << >>, rs) : rs \in TableRowSeqs}

NodeSet == SimpleNodes \cup ListNodes \cup TableNodes

Trees == UNION {[1..n -> NodeSet] : n \in 0..MaxNodes}

extractText(n) == n.body

extractCodeLines(n) == n.body

RECURSIVE buildTableLoop(_, _)
buildTableLoop(rs, tb) ==
    IF rs = << >> THEN tb
    ELSE LET cells == Head(rs).cells
             tb1 == [tb EXCEPT !.numCols = Max(Len(cells), @)]
         IN  buildTableLoop(Tail(rs),
                 IF Head(rs).isHeader
                 THEN [tb1 EXCEPT !.headers = cells]
                 ELSE [tb1 EXCEPT !.rows = Append(@, cells)])

buildTableBlock(n) ==
    buildTableLoop(n.rows, [kind |-> "tableBlock", headers |-> << >>,
                            rows |-> << >>, numCols |-> 0])

\* the texts of the numCols labels tableRow lays out for one row
tableRow(cells, numCols) ==
    [i \in 1..numCols |-> IF i - 1 < Len(cells) THEN cells[i] ELSE ""]

\* a loop that never steps its counter
RECURSIVE listItemsSameNumber(_, _, _, _)
listItemsSameNumber(children, ordered, counter, listDepth) ==
    IF children = << >> THEN << >>
    ELSE <<[indent |-> listDepth,
            bullet |-> IF ordered THEN <<counter, ". ">> ELSE <<"* ">>,
            body   |-> Head(children).body]>>
         \o listItemsSameNumber(Tail(children), ordered, counter, listDepth)

\* the loop over a list's children; a bullet "N. " is <<N, ". ">>, and the
\* bullet of an unordered list is written "* "
RECURSIVE listItems(_, _, _, _)
listItems(children, ordered, counter, listDepth) ==
    IF children = << >> THEN << >>
    ELSE LET child == Head(children) IN
         IF ~child.isListItem
         THEN listItems(Tail(children), ordered, counter, listDepth)
         ELSE <<[indent |-> listDepth,
                 bullet |-> IF ordered THEN <<counter, ". ">> ELSE <<"* ">>,
                 body   |-> child.body]>>
              \o listItems(Tail(children), ordered,
                           IF ordered THEN counter + 1 ELSE counter, listDepth)

NilBlock == [kind |-> "nil"]

nodeToBlock(n, listDepth) ==
    CASE n.type = "Heading" ->
             [kind |-> "headingBlock", level |-> n.level, body |-> extractText(n)]
      [] n.type = "Paragraph" ->
             [kind |-> "paragraphBlock", body |-> extractText(n)]
      [] n.type \in {"FencedCodeBlock", "CodeBlock"} ->
             [kind |-> "codeBlock", code |-> extractCodeLines(n)]
      [] n.type = "ThematicBreak" -> [kind |-> "hrBlock"]
      [] n.type = "Blockquote" ->
             [kind |-> "blockquoteBlock", body |-> extractText(n)]
      [] n.type = "List" ->
             [kind |-> "listGroupBlock",
              items |-> listItems(n.items, n.ordered, 1, listDepth)]
      [] n.type = "Table" -> buildTableBlock(n)
      [] OTHER -> NilBlock

\* a loop that ends at the first node without a block
RECURSIVE convertNodesStopAtNil(_)
convertNodesStopAtNil(ns) ==
    IF ns = << >> THEN << >>
    ELSE LET b == nodeToBlock(Head(ns), 0) IN
         IF b.kind # "nil" THEN <<b>> \o convertNodesStopAtNil(Tail(ns))
         ELSE << >>

RECURSIVE convertNodes(_)
convertNodes(ns) ==
    IF ns = << >> THEN << >>
    ELSE LET b == nodeToBlock(Head(ns), 0) IN
         (IF b.kind # "nil" THEN <<b>> ELSE << >>) \o convertNodes(Tail(ns))

\* renderMarkdown without its guard on the trimmed text
renderMarkdownTreeNoGuard(text, tree) ==
    [parsed |-> TRUE, doc |-> tree, blocks |-> convertNodes(tree)]

\* tree is what mdParser.Parser().Parse returns for text; parsed tells
\* whether the call got as far as parsing
renderMarkdownTree(text, tree) ==
    IF TrimSpace(text) = << >>
    THEN [parsed |-> FALSE, doc |-> << >>, blocks |-> << >>]
    ELSE [parsed |-> TRUE, doc |-> tree, blocks |-> convertNodes(tree)]

GTexts == {<< >>, <<" ">>, <<"\n">>, <<" ", "\n", "\t">>, <<"a">>}

TreeIdle ==
    /\ gtext = << >>
    /\ doc = << >>
    /\ previewBlocks = << >>
    /\ gpc = "call"

TreeInit ==
    /\ gtext \in GTexts
    /\ doc = << >>
    /\ previewBlocks = << >>
    /\ gpc = "call"

GioRender ==
    /\ gpc = "call"
    /\ \E tree \in Trees :
           LET r == renderMarkdownTree(gtext, tree) IN
           /\ doc' = r.doc
           /\ previewBlocks' = r.blocks
    /\ gpc' = "done"
    /\ UNCHANGED gtext

(***************************************************************************)
(* The application around the preview.  The folder the user works in holds *)
(* at most the files of Paths; the editor holds one of AppTexts; a dialog  *)
(* or modal on show takes the input until it is answered.                  *)
(***************************************************************************)
NoPath  == ""
Folder  == "notes"
Folders == {"notes", "work"}    \* "work" holds no files
Paths   == {"notes/a.md", "notes/b.md"}
Names   == {"", "a", "b"}

\* filepath.Join(dir, name + ".md") for the names typed here
pathOf(name) == IF name = "a" THEN "notes/a.md" ELSE "notes/b.md"

AppTexts == {<< >>, <<"a">>, <<"#", " ", "a">>}

NoModal == [kind |-> "none"]

AppInit ==
    /\ disk = [p \in {"notes/a.md"} |-> <<"a">>]
    /\ rootPath = NoPath
    /\ currentFile = NoPath
    /\ selectedPath = NoPath
    /\ modified = FALSE
    /\ loading = FALSE
    /\ modal = NoModal
    /\ openFolderCh = << >>
    /\ pickers = 0
    /\ invalidating = 0
    /\ invalidated = FALSE
    /\ status = "ready"
    /\ expanded = {}
    /\ visible = << >>
    /\ hoveredIdx = -1

\* fmt.Sprintf("'%s' already exists", filepath.Base(path))
alreadyExists(path) == IF path = "notes/a.md" THEN "exists a.md" ELSE "exists b.md"

\* updateTitle: with a file open the status bar shows its path
updateTitle(file, st) == IF file = NoPath THEN st ELSE "file"

\* os.WriteFile(path, data)
WriteFile(path, data) ==
    disk' = [q \in DOMAIN disk \cup {path} |-> IF q = path THEN data ELSE disk[q]]

targetDir ==
    IF selectedPath # NoPath /\ selectedPath \in DOMAIN disk THEN Folder
    ELSE rootPath

(***************************************************************************)
(* The Fyne build.  Entry.SetText calls OnChanged when the text differs    *)
(* from the one the entry holds; OnChanged runs updatePreview.             *)
(***************************************************************************)
\* editor.SetText(text) with OnChanged's updatePreview
Fyne_SetText(text) ==
    IF text = content THEN UNCHANGED docVars
    ELSE \E order \in Orders(separatorsOf(text)) : updatePreview(text, order)

\* an OnChanged that marks the document whatever loading is
Fyne_modifiedAfterUnguarded(text, isLoading, m) ==
    IF text = content THEN m ELSE TRUE

\* modified after the entry's text is set to text, m being modified and
\* isLoading being loading at that time: OnChanged runs when the text differs
Fyne_modifiedAfter(text, isLoading, m) ==
    IF text = content THEN m
    ELSE IF ~isLoading THEN TRUE ELSE m

\* the user types: OnChanged with loading false
Fyne_OnChanged(text) ==
    /\ modal = NoModal
    /\ text # content
    /\ \E order \in Orders(separatorsOf(text)) : updatePreview(text, order)
    /\ modified' = Fyne_modifiedAfter(text, loading, modified)
    /\ status' = (IF ~loading THEN updateTitle(currentFile, status) ELSE status)
    /\ UNCHANGED <<disk, rootPath, currentFile, selectedPath, loading, modal,
                   chanVars, ftVars>>

\* readable is whether os.ReadFile succeeds; after is the dialog left on show
Fyne_loadFile(path, readable, after) ==
    IF ~readable \/ path \notin DOMAIN disk
    THEN /\ modal' = [kind |-> "error", what |-> "read"]
         /\ UNCHANGED <<docVars, currentFile, modified, loading, status>>
    ELSE /\ currentFile' = path
         /\ Fyne_SetText(disk[path])
         /\ loading' = FALSE
         /\ modified' = FALSE
         /\ status' = updateTitle(path, status)
         /\ modal' = after

Fyne_openFolder(path) ==
    /\ rootPath' = path
    /\ currentFile' = NoPath
    /\ modified' = Fyne_modifiedAfter(<< >>, TRUE, FALSE)
    /\ Fyne_SetText(<< >>)
    /\ loading' = FALSE
    /\ status' = "folder"

Fyne_promptOpenFolder ==
    /\ modal = NoModal
    /\ modal' = [kind |-> "folder"]
    /\ UNCHANGED <<docVars, disk, rootPath, currentFile, selectedPath, modified,
                   loading, chanVars, ftVars, status>>

\* the callback of the folder dialog: a folder, or nil when cancelled
Fyne_FolderChosen(chosen) ==
    /\ modal.kind = "folder"
    /\ modal' = NoModal
    /\ IF chosen THEN Fyne_openFolder(Folder)
       ELSE UNCHANGED <<docVars, rootPath, currentFile, modified, loading, status>>
    /\ UNCHANGED <<disk, selectedPath, chanVars, ftVars>>

\* a file of the tree is selected
Fyne_confirmSwitch(targetPath, readable) ==
    /\ modal = NoModal
    /\ rootPath # NoPath
    /\ targetPath \in DOMAIN disk
    /\ IF ~modified THEN Fyne_loadFile(targetPath, readable, NoModal)
       ELSE /\ modal' = [kind |-> "confirm", target |-> targetPath]
            /\ UNCHANGED <<docVars, currentFile, modified, loading, status>>
    /\ UNCHANGED <<disk, rootPath, selectedPath, chanVars, ftVars>>

\* the callback of the confirmation
Fyne_ConfirmAnswered(discard, readable) ==
    /\ modal.kind = "confirm"
    /\ IF discard THEN Fyne_loadFile(modal.target, readable, NoModal)
       ELSE /\ modal' = NoModal
            /\ UNCHANGED <<docVars, currentFile, modified, loading, status>>
    /\ UNCHANGED <<disk, rootPath, selectedPath, chanVars, ftVars>>

Fyne_promptNewFile ==
    /\ modal = NoModal
    /\ modal' = IF targetDir = NoPath THEN [kind |-> "info"] ELSE [kind |-> "form"]
    /\ UNCHANGED <<docVars, disk, rootPath, currentFile, selectedPath, modified,
                   loading, chanVars, ftVars, status>>

\* writable is whether os.WriteFile succeeds; the file loadFile reads is the
\* one just written
Fyne_createNewFile(path, writable, readable) ==
    IF path \in DOMAIN disk
    THEN /\ modal' = [kind |-> "error", what |-> alreadyExists(path)]
         /\ UNCHANGED <<docVars, disk, currentFile, modified, loading, status>>
    ELSE IF ~writable
    THEN /\ modal' = [kind |-> "error", what |-> "write"]
         /\ UNCHANGED <<docVars, disk, currentFile, modified, loading, status>>
    ELSE /\ WriteFile(path, << >>)
         /\ IF ~readable
            THEN /\ modal' = [kind |-> "error", what |-> "read"]
                 /\ UNCHANGED <<docVars, currentFile, modified, loading, status>>
            ELSE /\ currentFile' = path
                 /\ Fyne_SetText(<< >>)
                 /\ loading' = FALSE
                 /\ modified' = FALSE
                 /\ status' = updateTitle(path, status)
                 /\ modal' = NoModal

\* the callback of the New File form
Fyne_FormAnswered(ok, name, writable, readable) ==
    /\ modal.kind = "form"
    /\ IF ~ok \/ name = ""
       THEN /\ modal' = NoModal
            /\ UNCHANGED <<docVars, disk, currentFile, modified, loading, status>>
       ELSE Fyne_createNewFile(pathOf(name), writable, readable)
    /\ UNCHANGED <<rootPath, selectedPath, chanVars, ftVars>>

\* an error or information dialog is closed
Fyne_DialogClosed ==
    /\ modal.kind \in {"error", "info"}
    /\ modal' = NoModal
    /\ UNCHANGED <<docVars, disk, rootPath, currentFile, selectedPath, modified,
                   loading, chanVars, ftVars, status>>

\* a saveFile that writes without looking at currentFile
Fyne_saveFileAnyFile(writable) ==
    /\ modal = NoModal
    /\ IF ~writable
       THEN /\ modal' = [kind |-> "error", what |-> "write"]
            /\ UNCHANGED <<disk, modified, status>>
       ELSE /\ WriteFile(currentFile, content)
            /\ modified' = FALSE
            /\ status' = "saved"
            /\ UNCHANGED modal
    /\ UNCHANGED <<docVars, rootPath, currentFile, selectedPath, loading,
                   chanVars, ftVars>>

Fyne_saveFile(writable) ==
    /\ modal = NoModal
    /\ IF currentFile = NoPath
       THEN UNCHANGED <<disk, modified, modal, status>>
       ELSE IF ~writable
       THEN /\ modal' = [kind |-> "error", what |-> "write"]
            /\ UNCHANGED <<disk, modified, status>>
       ELSE /\ WriteFile(currentFile, content)
            /\ modified' = FALSE
            /\ status' = "saved"
            /\ UNCHANGED modal
    /\ UNCHANGED <<docVars, rootPath, currentFile, selectedPath, loading,
                   chanVars, ftVars>>

FyneNext ==
    \/ \E text \in AppTexts : Fyne_OnChanged(text)
    \/ Fyne_promptOpenFolder
    \/ \E chosen \in BOOLEAN : Fyne_FolderChosen(chosen)
    \/ \E p \in Paths, readable \in BOOLEAN : Fyne_confirmSwitch(p, readable)
    \/ \E discard, readable \in BOOLEAN : Fyne_ConfirmAnswered(discard, readable)
    \/ Fyne_promptNewFile
    \/ \E ok, writable, readable \in BOOLEAN, name \in Names :
           Fyne_FormAnswered(ok, name, writable, readable)
    \/ Fyne_DialogClosed
    \/ \E writable \in BOOLEAN : Fyne_saveFile(writable)

(***************************************************************************)
(* The Gio build.  Editor.SetText raises no ChangeEvent; a ChangeEvent     *)
(* comes from the user's typing and is polled by layoutEditor.  The tree   *)
(* goldmark returns for each of AppTexts is goldmarkParse.                 *)
(***************************************************************************)
MaxPickers == 2    \* goroutines of promptOpenFolder alive at a time

ChCap == 1

goldmarkParse(text) ==
    IF text = <<"a">> THEN <<Node("Paragraph", 0, FALSE, << >>, << >>)>>
    ELSE IF text = <<"#", " ", "a">> THEN <<Node("Heading", 1, FALSE, << >>, << >>)>>
    ELSE << >>

\* previewBlocks = renderMarkdown(text)
Gio_renderMarkdown(text) ==
    LET r == renderMarkdownTree(text, goldmarkParse(text)) IN
    /\ previewBlocks' = r.blocks
    /\ doc' = r.doc
    /\ gpc' = "done"

\* layoutEditor: the editor reports a ChangeEvent after the user typed
Gio_ChangeEvent(text) ==
    /\ modal = NoModal
    /\ text # gtext
    /\ gtext' = text
    /\ IF ~loading
       THEN /\ modified' = TRUE
            /\ status' = updateTitle(currentFile, status)
            /\ Gio_renderMarkdown(text)
       ELSE UNCHANGED <<modified, status, previewBlocks, doc, gpc>>
    /\ UNCHANGED <<disk, rootPath, currentFile, selectedPath, loading, modal,
                   chanVars, ftVars>>

\* loadFile without its closing assignment of previewBlocks
Gio_loadFileNoRender(path, readable, sel) ==
    IF ~readable \/ path \notin DOMAIN disk
    THEN /\ selectedPath' = sel
         /\ status' = "error"
         /\ UNCHANGED <<treeVars, currentFile, modified, loading>>
    ELSE /\ currentFile' = path
         /\ selectedPath' = path
         /\ gtext' = disk[path]
         /\ loading' = FALSE
         /\ modified' = FALSE
         /\ status' = updateTitle(path, status)
         /\ UNCHANGED <<previewBlocks, doc, gpc>>

\* sel is selectedPath at the call; readable is whether os.ReadFile succeeds
Gio_loadFile(path, readable, sel) ==
    IF ~readable \/ path \notin DOMAIN disk
    THEN /\ selectedPath' = sel
         /\ status' = "error"
         /\ UNCHANGED <<treeVars, currentFile, modified, loading>>
    ELSE /\ currentFile' = path
         /\ selectedPath' = path
         /\ gtext' = disk[path]
         /\ loading' = FALSE
         /\ modified' = FALSE
         /\ status' = updateTitle(path, status)
         /\ Gio_renderMarkdown(disk[path])

(***************************************************************************)
(* The file tree of the Gio build.  Beside the files of disk the folder    *)
(* "notes" holds the directories of Dirs and the files of OtherFiles; a    *)
(* path is a string, and filepath.Dir, filepath.Base and the byte order    *)
(* of the paths are tables.                                                *)
(***************************************************************************)
Dirs       == {"notes/d", "notes/d/e", "notes/f"}
OtherFiles == {"notes/.h", "notes/d/N.MD", "notes/d/c.md", "notes/d/e/x.md",
               "notes/f/.h", "notes/t.txt"}

\* the paths of the folder as sort.Slice orders them
ByteOrder ==
    <<"notes/.h", "notes/a.md", "notes/b.md", "notes/d", "notes/d/N.MD",
      "notes/d/c.md", "notes/d/e", "notes/d/e/x.md", "notes/f", "notes/f/.h",
      "notes/t.txt">>

\* filepath.Dir
Dir(p) ==
    CASE p \in {"notes/d/N.MD", "notes/d/c.md", "notes/d/e"} -> "notes/d"
      [] p = "notes/d/e/x.md" -> "notes/d/e"
      [] p = "notes/f/.h" -> "notes/f"
      [] p \in {"notes", "work", NoPath} -> NoPath
      [] OTHER -> "notes"

\* filepath.Base
Base(p) ==
    CASE p \in {"notes/.h", "notes/f/.h"} -> ".h"
      [] p = "notes/a.md" -> "a.md"
      [] p = "notes/b.md" -> "b.md"
      [] p = "notes/d" -> "d"
      [] p = "notes/d/N.MD" -> "N.MD"
      [] p = "notes/d/c.md" -> "c.md"
      [] p = "notes/d/e" -> "e"
      [] p = "notes/d/e/x.md" -> "x.md"
      [] p = "notes/f" -> "f"
      [] p = "notes/t.txt" -> "t.txt"
      [] OTHER -> p

\* strings.HasPrefix(e.Name(), ".")
isHidden(p) == Base(p) = ".h"

\* strings.ToLower(filepath.Ext(e.Name())) == ".md"
isMarkdown(p) == Base(p) \in {"a.md", "b.md", "N.MD", "c.md", "x.md"}

\* listDir: the directories of path in order, then its .md files in order
listDir(path, files) ==
    LET entry(p) == p \in Dirs \cup OtherFiles \cup files /\ Dir(p) = path
                       /\ ~isHidden(p)
        isDirEntry(p)  == entry(p) /\ p \in Dirs
        isFileEntry(p) == entry(p) /\ p \notin Dirs /\ isMarkdown(p)
    IN  SelectSeq(ByteOrder, isDirEntry) \o SelectSeq(ByteOrder, isFileEntry)

treeNode(p, depth) ==
    [path |-> p, name |-> Base(p), isDir |-> p \in Dirs, depth |-> depth]

RECURSIVE appendChildren(_, _, _, _)
RECURSIVE appendEach(_, _, _, _)

\* an appendChildren that gives the rows of a directory the depth of the
\* directory
appendEachSameDepth(children, depth, exp, files) ==
    IF children = << >>
    THEN << >>
    ELSE LET p == Head(children)
         IN  <<treeNode(p, depth)>>
             \o (IF p \in Dirs /\ p \in exp
                 THEN appendChildren(p, depth, exp, files)
                 ELSE << >>)
             \o appendEach(Tail(children), depth, exp, files)

\* the loop of appendChildren over the children of a directory
appendEach(children, depth, exp, files) ==
    IF children = << >>
    THEN << >>
    ELSE LET p == Head(children)
         IN  <<treeNode(p, depth)>>
             \o (IF p \in Dirs /\ p \in exp
                 THEN appendChildren(p, depth + 1, exp, files)
                 ELSE << >>)
             \o appendEach(Tail(children), depth, exp, files)

appendChildren(dir, depth, exp, files) ==
    appendEach(listDir(dir, files), depth, exp, files)

\* rebuild, with the root, the expanded map and the files it finds
rebuild(root, exp, files) ==
    IF root = NoPath THEN << >> ELSE appendChildren(root, 0, exp, files)

\* FileTree.Reset, as openFolder calls it with the new root
Reset(root, files) ==
    /\ expanded' = {}
    /\ hoveredIdx' = -1
    /\ visible' = rebuild(root, {}, files)

\* FileTree.Refresh
Refresh(files) ==
    /\ visible' = rebuild(rootPath, expanded, files)
    /\ UNCHANGED <<expanded, hoveredIdx>>

\* FileTree.Layout: a primary press on the row of a directory
Gio_TreeToggle(i) ==
    /\ modal = NoModal
    /\ i \in DOMAIN visible
    /\ visible[i].isDir
    /\ LET p == visible[i].path
           toggled == IF p \in expanded THEN expanded \ {p}
                                        ELSE expanded \cup {p}
       IN  /\ expanded' = toggled
           /\ visible' = rebuild(rootPath, toggled, DOMAIN disk)
    /\ UNCHANGED <<treeVars, disk, rootPath, currentFile, selectedPath, modified,
                   loading, modal, chanVars, status, hoveredIdx>>

\* FileTree.Layout: the pointer enters the row
Gio_TreeEnter(i) ==
    /\ modal = NoModal
    /\ i \in DOMAIN visible
    /\ hoveredIdx' = i - 1
    /\ UNCHANGED <<treeVars, disk, rootPath, currentFile, selectedPath, modified,
                   loading, modal, chanVars, status, expanded, visible>>

\* FileTree.Layout: the pointer leaves the row
Gio_TreeLeave(i) ==
    /\ modal = NoModal
    /\ i \in DOMAIN visible
    /\ hoveredIdx' = IF hoveredIdx = i - 1 THEN -1 ELSE hoveredIdx
    /\ UNCHANGED <<treeVars, disk, rootPath, currentFile, selectedPath, modified,
                   loading, modal, chanVars, status, expanded, visible>>

Gio_openFolder(path) ==
    /\ rootPath' = path
    /\ currentFile' = NoPath
    /\ modified' = FALSE
    /\ gtext' = << >>
    /\ loading' = FALSE
    /\ previewBlocks' = << >>
    /\ Reset(path, DOMAIN disk)
    /\ status' = "folder"
    /\ UNCHANGED <<doc, gpc>>

\* Ctrl+O or the toolbar button: a goroutine opens the folder picker
Gio_promptOpenFolder ==
    /\ modal = NoModal
    /\ pickers + invalidating < MaxPickers
    /\ pickers' = pickers + 1
    /\ UNCHANGED <<treeVars, disk, rootPath, currentFile, selectedPath, modified,
                   loading, modal, openFolderCh, invalidating, invalidated,
                   status, ftVars>>

\* the folders the user picks: in the run of the folder channel either of
\* two, in the run of the whole application the one that holds the files
Picks == IF variant = "folders" THEN Folders ELSE {Folder}

\* the goroutine's picker returns: with an error (the user dismissed it) or
\* an empty path the goroutine ends; a path is sent once the channel has
\* room, and the goroutine goes on to Invalidate
Gio_PickerReturns(err, path) ==
    /\ pickers > 0
    /\ IF ~err /\ path # NoPath
       THEN /\ Len(openFolderCh) < ChCap
            /\ openFolderCh' = Append(openFolderCh, path)
            /\ invalidating' = invalidating + 1
       ELSE UNCHANGED <<openFolderCh, invalidating>>
    /\ pickers' = pickers - 1
    /\ UNCHANGED <<treeVars, disk, rootPath, currentFile, selectedPath, modified,
                   loading, modal, status, invalidated, ftVars>>

\* a goroutine that ends without asking for a frame
Gio_PickerEndsSilently ==
    /\ invalidating > 0
    /\ invalidating' = invalidating - 1
    /\ UNCHANGED <<treeVars, disk, rootPath, currentFile, selectedPath, modified,
                   loading, modal, status, openFolderCh, pickers, invalidated,
                   ftVars>>

\* the goroutine's last statement: a.window.Invalidate()
Gio_PickerInvalidates ==
    /\ invalidating > 0
    /\ invalidating' = invalidating - 1
    /\ invalidated' = TRUE
    /\ UNCHANGED <<treeVars, disk, rootPath, currentFile, selectedPath, modified,
                   loading, modal, status, openFolderCh, pickers, ftVars>>

\* run: a frame, requested by Invalidate or brought by any other event,
\* takes at most one path from the channel
Gio_FrameDrain ==
    /\ openFolderCh # << >> \/ invalidated
    /\ IF openFolderCh # << >>
       THEN /\ Gio_openFolder(Head(openFolderCh))
            /\ openFolderCh' = Tail(openFolderCh)
       ELSE UNCHANGED <<treeVars, rootPath, currentFile, modified, loading,
                        status, openFolderCh, ftVars>>
    /\ invalidated' = FALSE
    /\ UNCHANGED <<disk, selectedPath, modal, pickers, invalidating>>

Gio_confirmSwitch(targetPath, readable, sel) ==
    IF ~modified
    THEN Gio_loadFile(targetPath, readable, sel) /\ UNCHANGED modal
    ELSE /\ modal' = [kind |-> "confirm", target |-> targetPath]
         /\ selectedPath' = sel
         /\ UNCHANGED <<treeVars, currentFile, modified, loading, status>>

\* FileTree.Layout: a primary press on the row of a file
Gio_TreePress(path, readable) ==
    /\ modal = NoModal
    /\ rootPath = Folder
    /\ path \in DOMAIN disk
    /\ Gio_confirmSwitch(path, readable, path)
    /\ UNCHANGED <<disk, rootPath, chanVars, ftVars>>

\* Ctrl+N or the toolbar button
Gio_promptNewFile ==
    /\ modal = NoModal
    /\ modal' = IF targetDir = NoPath THEN [kind |-> "info"] ELSE [kind |-> "input"]
    /\ UNCHANGED <<treeVars, disk, rootPath, currentFile, selectedPath, modified,
                   loading, chanVars, ftVars, status>>

\* a createNewFile that does not look whether the file exists
Gio_createNewFileNoStat(path, writable, readable) ==
    IF ~writable
    THEN /\ status' = "error"
         /\ UNCHANGED <<treeVars, disk, currentFile, selectedPath, modified,
                        loading, ftVars>>
    ELSE /\ WriteFile(path, << >>)
         /\ Refresh(DOMAIN disk \cup {path})
         /\ Gio_loadFile(path, readable, selectedPath)

\* the file loadFile reads is the one just written
Gio_createNewFile(path, writable, readable) ==
    IF path \in DOMAIN disk
    THEN /\ status' = alreadyExists(path)
         /\ UNCHANGED <<treeVars, disk, currentFile, selectedPath, modified,
                        loading, ftVars>>
    ELSE IF ~writable
    THEN /\ status' = "error"
         /\ UNCHANGED <<treeVars, disk, currentFile, selectedPath, modified,
                        loading, ftVars>>
    ELSE /\ WriteFile(path, << >>)
         /\ Refresh(DOMAIN disk \cup {path})
         /\ IF ~readable
            THEN /\ status' = "error"
                 /\ UNCHANGED <<treeVars, currentFile, selectedPath, modified,
                                loading>>
            ELSE /\ currentFile' = path
                 /\ selectedPath' = path
                 /\ gtext' = << >>
                 /\ loading' = FALSE
                 /\ modified' = FALSE
                 /\ status' = updateTitle(path, status)
                 /\ Gio_renderMarkdown(<< >>)

\* layoutModalCard: OK (Discard) is clicked; input is the text of m.input
Gio_ModalOK(input, writable, readable) ==
    /\ modal # NoModal
    /\ modal' = NoModal
    /\ CASE modal.kind = "confirm" ->
               /\ Gio_loadFile(modal.target, readable, selectedPath)
               /\ UNCHANGED <<disk, ftVars>>
         [] modal.kind = "input" /\ input # "" ->
               Gio_createNewFile(pathOf(input), writable, readable)
         [] OTHER ->
               UNCHANGED <<treeVars, disk, currentFile, selectedPath, modified,
                           loading, status, ftVars>>
    /\ UNCHANGED <<rootPath, chanVars>>

Gio_ModalCancel ==
    /\ modal # NoModal
    /\ modal' = NoModal
    /\ UNCHANGED <<treeVars, disk, rootPath, currentFile, selectedPath, modified,
                   loading, chanVars, ftVars, status>>

Gio_saveFile(writable) ==
    /\ modal = NoModal
    /\ IF currentFile = NoPath
       THEN UNCHANGED <<disk, modified, status>>
       ELSE IF ~writable
       THEN status' = "error" /\ UNCHANGED <<disk, modified>>
       ELSE /\ WriteFile(currentFile, gtext)
            /\ modified' = FALSE
            /\ status' = "saved"
    /\ UNCHANGED <<treeVars, rootPath, currentFile, selectedPath, loading, modal,
                   chanVars, ftVars>>

GioNext ==
    \/ \E text \in AppTexts : Gio_ChangeEvent(text)
    \/ Gio_promptOpenFolder
    \/ \E err \in BOOLEAN, path \in Picks \cup {NoPath} :
           Gio_PickerReturns(err, path)
    \/ Gio_PickerInvalidates
    \/ Gio_FrameDrain
    \/ \E p \in Paths, readable \in BOOLEAN : Gio_TreePress(p, readable)
    \/ Gio_promptNewFile
    \/ \E name \in Names, writable, readable \in BOOLEAN :
           Gio_ModalOK(name, writable, readable)
    \/ Gio_ModalCancel
    \/ \E writable \in BOOLEAN : Gio_saveFile(writable)

(***************************************************************************)
(* Specifications.  variant is the build that runs: the Fyne one (binary   *)
(* policy) or the Gio one (structural policy); "row", "folders" and "tree" *)
(* are the runs of SpecRow, SpecFolder and SpecTree, the last two of the   *)
(* Gio build.                                                              *)
(***************************************************************************)
Init ==
    /\ RowInit
    /\ AppInit
    /\ \/ variant = "fyne" /\ DocInit /\ TreeIdle
       \/ variant = "gio" /\ DocInit /\ TreeInit

Next ==
    \/ variant = "fyne" /\ DocNext
           /\ UNCHANGED <<variant, rowVars, treeVars, appVars>>
    \/ variant = "gio" /\ GioRender
           /\ UNCHANGED <<variant, rowVars, docVars, appVars>>

Spec == Init /\ [][Next]_vars

RowSpecInit == variant = "row" /\ RowInit /\ DocInit /\ TreeIdle /\ AppInit

RowSpecNext == RowNext /\ UNCHANGED <<variant, docVars, treeVars, appVars>>

AppSpecInit ==
    /\ variant \in {"fyne", "gio"}
    /\ RowInit /\ DocInit /\ TreeIdle /\ AppInit

AppSpecNext ==
    \/ variant = "fyne" /\ FyneNext /\ UNCHANGED <<variant, rowVars, treeVars>>
    \/ variant = "gio" /\ GioNext /\ UNCHANGED <<variant, rowVars, docVars>>

SpecApp == AppSpecInit /\ [][AppSpecNext]_vars

\* The folder channel of the Gio build: the user picks among two folders,
\* edits, opens and saves files, and creates none.
FolderInit ==
    /\ variant = "folders"
    /\ RowInit /\ DocInit /\ TreeIdle /\ AppInit

FolderNext ==
    /\ \/ \E text \in AppTexts : Gio_ChangeEvent(text)
       \/ Gio_promptOpenFolder
       \/ \E err \in BOOLEAN, path \in Picks \cup {NoPath} :
              Gio_PickerReturns(err, path)
       \/ Gio_PickerInvalidates
       \/ Gio_FrameDrain
       \/ \E p \in Paths, readable \in BOOLEAN : Gio_TreePress(p, readable)
       \/ \E readable \in BOOLEAN : Gio_ModalOK("", TRUE, readable)
       \/ Gio_ModalCancel
       \/ \E writable \in BOOLEAN : Gio_saveFile(writable)
    /\ UNCHANGED <<variant, rowVars, docVars>>

\* The goroutine runs on to its Invalidate, and a requested frame arrives.
FolderFairness ==
    /\ WF_vars(Gio_PickerInvalidates /\ UNCHANGED <<variant, rowVars, docVars>>)
    /\ WF_vars(invalidated /\ Gio_FrameDrain
                 /\ UNCHANGED <<variant, rowVars, docVars>>)

SpecFolder == FolderInit /\ [][FolderNext]_vars /\ FolderFairness

\* The file tree of the Gio build: the user opens the folder, presses the
\* rows of directories, hovers rows and creates files; the editor is left
\* alone.
TreeSpecInit ==
    /\ variant = "tree"
    /\ RowInit /\ DocInit /\ TreeIdle /\ AppInit

TreeSpecNext ==
    /\ \/ Gio_promptOpenFolder
       \/ \E err \in BOOLEAN, path \in Picks \cup {NoPath} :
              Gio_PickerReturns(err, path)
       \/ Gio_PickerInvalidates
       \/ Gio_FrameDrain
       \/ \E i \in DOMAIN visible : Gio_TreeToggle(i)
       \/ \E i \in DOMAIN visible : Gio_TreeEnter(i)
       \/ \E i \in DOMAIN visible : Gio_TreeLeave(i)
       \/ Gio_promptNewFile
       \/ \E name \in Names, writable, readable \in BOOLEAN :
              Gio_ModalOK(name, writable, readable)
       \/ Gio_ModalCancel
    /\ UNCHANGED <<variant, rowVars, docVars>>

SpecTree == TreeSpecInit /\ [][TreeSpecNext]_vars

SpecRow == RowSpecInit /\ [][RowSpecNext]_vars

(***************************************************************************)
(* Vocabulary of the properties.                                           *)
(***************************************************************************)
WhitespaceOnly(s) == \A i \in DOMAIN s : s[i] \in Space

\* the number of fence-toggling lines among the first n lines
TogglesBefore(ls, n) == Cardinality({k \in 1..n : isFenceToggle(ls[k])})

\* every fence that is opened is closed
Balanced(ls) == TogglesBefore(ls, Len(ls)) % 2 = 0

\* line i lies in a fenced region, the opening and the closing line included
Fenced(ls, i) == isFenceToggle(ls[i]) \/ TogglesBefore(ls, i - 1) % 2 = 1

RECURSIVE ConcatLines(_)
ConcatLines(bs) ==
    IF bs = << >> THEN << >> ELSE Head(bs).lines \o ConcatLines(Tail(bs))

\* the index in lines of the first line of block k
BlockStart(k) == 1 + Len(ConcatLines(SubSeq(blocks, 1, k - 1)))

\* the block of blocks that holds line i
BlockOf(i) ==
    CHOOSE k \in DOMAIN blocks :
        BlockStart(k) <= i /\ i < BlockStart(k) + Len(blocks[k].lines)

MaxOf(S) == IF S = {} THEN 0 ELSE CHOOSE m \in S : \A x \in S : x <= m

\* the rows of a run: its lines that contain a pipe and are no separator row
RowLines(ls) == SelectSeq(ls, LAMBDA ln : Contains(ln, "|") /\ ~isSeparatorRow(ln))

TableBlocks == {k \in DOMAIN blocks : blocks[k].isTable}

(***************************************************************************)
(* C1: for a text whose fences are balanced, no line of a fenced region    *)
(* (the opening and the closing line included) is marked as a table line   *)
(* or recorded as a separator row, and none lies in a block with isTable.  *)
(* The code does not keep this: a walk from a separator row outside the    *)
(* fence runs over the fence lines that follow or precede it without a     *)
(* blank line.                                                             *)
(***************************************************************************)
C1_FenceImmunity ==
    (variant = "fyne" /\ Balanced(lines)) =>
        \A i \in DOMAIN lines :
            Fenced(lines, i) =>
                /\ ~isTableLine[i]
                /\ i \notin separatorAt
                /\ ~blocks[BlockOf(i)].isTable

(***************************************************************************)
(* C2: for every table run, the first row of the run (a line with a pipe   *)
(* that is no separator row) is the header row, and the rows after it are  *)
(* the data rows, in order, so that no row is lost; no separator row is    *)
(* stored.  Stated here for the runs whose first line with a pipe is a     *)
(* row.  The code does not keep it: every row that comes before the first  *)
(* separator row holding a pipe overwrites the header, and the rows it     *)
(* overwrites are lost.                                                    *)
(***************************************************************************)
PipeLines(ls) == SelectSeq(ls, LAMBDA ln : Contains(ln, "|"))

C2_FirstRowIsHeader ==
    variant = "fyne" =>
        \A k \in TableBlocks :
            LET rows == RowLines(blocks[k].lines)
                t    == parseTable(blocks[k].lines)
            IN  (rows # << >> /\ PipeLines(blocks[k].lines)[1] = rows[1]) =>
                    /\ t.headers = parseTableRow(rows[1])
                    /\ t.dataRows =
                           [r \in 1..(Len(rows) - 1) |-> parseTableRow(rows[r + 1])]

(***************************************************************************)
(* C3: the column count of a table is the largest cell count among its     *)
(* header row and its data rows: parseTable's numCols for every table run, *)
(* tableBlock.numCols for every table block of the Gio variant.  It fails  *)
(* in parseTable with C2: an overwritten header row still counts.          *)
(***************************************************************************)
C3_ColumnCountIsMax ==
    /\ variant = "fyne" =>
           \A k \in TableBlocks :
               LET t == parseTable(blocks[k].lines) IN
               t.numCols = MaxOf({Len(t.headers)}
                                 \cup {Len(t.dataRows[r]) : r \in DOMAIN t.dataRows})
    /\ variant = "gio" =>
           \A j \in DOMAIN previewBlocks :
               LET b == previewBlocks[j] IN
               b.kind = "tableBlock" =>
                   b.numCols = MaxOf({Len(b.headers)}
                                     \cup {Len(b.rows[r]) : r \in DOMAIN b.rows})

(***************************************************************************)
(* C4: isSeparatorRow(line) is true exactly when, with the whitespace      *)
(* trimmed and at most one leading and at most one trailing pipe removed,  *)
(* the pieces between the pipes are each, once trimmed, non-empty, made of *)
(* dashes and colons only, and hold a dash.  The code removes every        *)
(* leading and trailing pipe, so it accepts "||-".                         *)
(***************************************************************************)
StripOnePipe(s) ==
    LET a == IF s # << >> /\ Head(s) = "|" THEN Tail(s) ELSE s
    IN  IF a # << >> /\ a[Len(a)] = "|" THEN SubSeq(a, 1, Len(a) - 1) ELSE a

\* the cells of a line as the specification cuts them
SpecCells(ln) ==
    LET parts == Split(StripOnePipe(TrimSpace(ln)), "|")
    IN  [i \in DOMAIN parts |-> TrimSpace(parts[i])]

SpecSeparator(ln) ==
    \A k \in DOMAIN SpecCells(ln) :
        LET cell == SpecCells(ln)[k] IN
        /\ cell # << >>
        /\ \A i \in DOMAIN cell : cell[i] \in {"-", ":"}
        /\ \E i \in DOMAIN cell : cell[i] = "-"

C4_SeparatorIff == variant = "row" => (sepResult <=> SpecSeparator(line))

(***************************************************************************)
(* C5: isSeparatorRow accepts ---|---, :--|--:, --- and -- |--, rejects    *)
(* |   | and abc|---, and rejects every line without a dash, every line    *)
(* with an empty cell and every line with a cell holding a character other *)
(* than dash and colon.  The six lines behave as stated; the general       *)
(* clause fails with C4: "||-" has an empty cell and is accepted.          *)
(***************************************************************************)
C5_Examples ==
    /\ isSeparatorRow(<<"-", "-", "-", "|", "-", "-", "-">>)
    /\ isSeparatorRow(<<":", "-", "-", "|", "-", "-", ":">>)
    /\ isSeparatorRow(<<"-", "-", "-">>)
    /\ isSeparatorRow(<<"-", "-", " ", "|", "-", "-">>)
    /\ ~isSeparatorRow(<<"|", " ", " ", " ", "|">>)
    /\ ~isSeparatorRow(<<"a", "b", "c", "|", "-", "-", "-">>)

C5_SeparatorStrictness ==
    variant = "row" =>
        /\ C5_Examples
        /\ (\A i \in DOMAIN line : line[i] # "-") => ~sepResult
        /\ (\E k \in DOMAIN SpecCells(line) : SpecCells(line)[k] = << >>) => ~sepResult
        /\ (\E k \in DOMAIN SpecCells(line) :
               \E i \in DOMAIN SpecCells(line)[k] :
                   SpecCells(line)[k][i] \notin {"-", ":"}) => ~sepResult

(***************************************************************************)
(* C6: a line is marked as a table line exactly when a separator row       *)
(* detected outside a fence is joined to it by non-blank lines only (the   *)
(* line and the separator row included), separatorAt being the separator   *)
(* rows outside a fence; so a line whose group of consecutive non-blank    *)
(* lines holds no separator row is not marked.                             *)
(***************************************************************************)
Between(i, s) == IF i <= s THEN i..s ELSE s..i

C6_TableLineIff ==
    variant = "fyne" =>
        /\ separatorAt = {s \in DOMAIN lines : ~inFence[s] /\ isSeparatorRow(lines[s])}
        /\ \A i \in DOMAIN lines :
               isTableLine[i] <=>
                   \E s \in separatorAt :
                       \A k \in Between(i, s) : ~WhitespaceOnly(lines[k])
        /\ \A i \in DOMAIN lines :
               (\A k \in DOMAIN lines :
                    (\A m \in Between(i, k) : ~WhitespaceOnly(lines[m]))
                        => ~isSeparatorRow(lines[k]))
                   => ~isTableLine[i]

\* a separator row, a row under it, a blank line that stops the walk, and a
\* line of text beyond it that stays unmarked
C6_Witness ==
    /\ variant = "fyne"
    /\ \E s \in separatorAt :
           /\ s + 3 \in DOMAIN lines
           /\ s + 1 \notin separatorAt /\ isTableLine[s + 1]
           /\ WhitespaceOnly(lines[s + 2])
           /\ ~WhitespaceOnly(lines[s + 3]) /\ ~isTableLine[s + 3]

(***************************************************************************)
(* C7: the lines of the blocks, block after block, are the lines of the    *)
(* text, and the objects renderMarkdown returns are those of the blocks    *)
(* that render to an object, in block order.                               *)
(***************************************************************************)
Rendering == {k \in DOMAIN blocks : renderBlock(blocks[k]) # << >>}

\* the j-th smallest element of a set of numbers
Nth(S, j) == CHOOSE k \in S : Cardinality({r \in S : r < k}) = j - 1

C7_OrderPreserved ==
    variant = "fyne" =>
        /\ ConcatLines(blocks) = Split(content, "\n")
        /\ Len(objects) = Cardinality(Rendering)
        /\ \A j \in DOMAIN objects :
               <<objects[j]>> = renderBlock(blocks[Nth(Rendering, j)])

\* a run of text and a table run after it, both rendered, in that order
C7_Witness ==
    /\ variant = "fyne"
    /\ Len(blocks) = 2
    /\ Len(objects) = 2
    /\ objects[1].kind = "RichText"
    /\ objects[2].kind = "Table"

(***************************************************************************)
(* C8: the blocks are the maximal runs of lines with the same table flag:  *)
(* a block holds at least one line, each of its lines is the line of the   *)
(* text at that place and has the block's isTable as its flag, and two     *)
(* adjacent blocks differ in isTable.                                      *)
(***************************************************************************)
C8_MaximalRuns ==
    variant = "fyne" =>
        \A k \in DOMAIN blocks :
            /\ Len(blocks[k].lines) >= 1
            /\ \A m \in DOMAIN blocks[k].lines :
                   LET i == BlockStart(k) + m - 1 IN
                   /\ i \in DOMAIN lines
                   /\ lines[i] = blocks[k].lines[m]
                   /\ isTableLine[i] = blocks[k].isTable
            /\ k > 1 => blocks[k - 1].isTable # blocks[k].isTable

\* three runs, one of them of several lines
C8_Witness ==
    /\ variant = "fyne"
    /\ Len(blocks) >= 3
    /\ \E k \in DOMAIN blocks : blocks[k].isTable /\ Len(blocks[k].lines) >= 2

(***************************************************************************)
(* C9: renderMarkdown returns no block at all for the empty text and for a *)
(* text of whitespace only, in both builds.                                *)
(***************************************************************************)
C9_EmptyInput ==
    /\ (variant = "fyne" /\ WhitespaceOnly(content)) => objects = << >>
    /\ (variant = "gio" /\ gpc = "done" /\ WhitespaceOnly(gtext)) =>
           previewBlocks = << >>

C9_Witness ==
    /\ variant = "gio"
    /\ gpc = "done"
    /\ gtext # << >>
    /\ WhitespaceOnly(gtext)

C11_NoFencedSeparator ==
    variant = "fyne" =>
        \A i \in DOMAIN lines :
            /\ inFence[i] => i \notin separatorAt
            /\ i \in separatorAt => isSeparatorRow(lines[i])

\* a line of a closed fence that isSeparatorRow accepts
C11_Witness ==
    /\ variant = "fyne"
    /\ Balanced(lines)
    /\ \E i \in DOMAIN lines :
           inFence[i] /\ isSeparatorRow(lines[i]) /\ i \notin separatorAt

(***************************************************************************)
(* C12: the fence state toggles at every line that, trimmed, starts with   *)
(* three backquotes or three tildes, so inFence of a line tells whether    *)
(* the toggling lines up to it, itself included, are odd in number.  When  *)
(* a fence is left open, the line that opened it and every line after it   *)
(* have inFence true and none of them is a key of separatorAt; the call    *)
(* still returns the blocks of all the lines.                              *)
(***************************************************************************)
\* the last fence-toggling line of ls
LastToggle(ls) == MaxOf({k \in DOMAIN ls : isFenceToggle(ls[k])})

C12_ToggleExamples ==
    /\ isFenceToggle(Tildes)
    /\ isFenceToggle(<<" ", "~", "~", "~", "a">>)
    /\ isFenceToggle(<<" ", Tick, Tick, Tick, "g", "o">>)
    /\ ~isFenceToggle(<<"~", "~">>)
    /\ ~isFenceToggle(<<"a", "~", "~", "~">>)
    /\ ~isFenceToggle(<<Tick, "~", "~">>)
    /\ fencePass(<<Tildes, <<"-", "|", "-">>, Backticks>>, FALSE)
           = <<TRUE, TRUE, FALSE>>

C12_UnclosedFence ==
    variant = "fyne" =>
        /\ C12_ToggleExamples
        /\ \A i \in DOMAIN lines :
               inFence[i] <=> TogglesBefore(lines, i) % 2 = 1
        /\ ~Balanced(lines) =>
               /\ \A i \in LastToggle(lines)..Len(lines) :
                      inFence[i] /\ i \notin separatorAt
               /\ ConcatLines(blocks) = lines

\* a fence left open with a line after it that isSeparatorRow accepts
C12_Witness ==
    /\ variant = "fyne"
    /\ ~Balanced(lines)
    /\ \E i \in DOMAIN lines :
           /\ i > LastToggle(lines)
           /\ isSeparatorRow(lines[i])
           /\ inFence[i]

(***************************************************************************)
(* C13: the cells parseTableRow returns are those of the line with its     *)
(* whitespace trimmed and at most one leading and at most one trailing     *)
(* pipe removed, cut at the pipes and each trimmed, so that a second       *)
(* leading or trailing pipe gives an empty cell.  The code removes every   *)
(* leading and trailing pipe: "||a" gives the one cell "a".                *)
(***************************************************************************)
C13_CellsOfRow == variant = "row" => rowCells = SpecCells(line)

(***************************************************************************)
(* C14: the data rows parseTable stores are the cells parseTableRow gives  *)
(* for their own lines, of whatever length (a short row is not padded),    *)
(* and the table that is drawn has numCols cells in every row, the cells   *)
(* past a row's length being the empty string: in the grid renderTableBlock*)
(* builds with cellAt, and in the labels tableRow lays out.                *)
(***************************************************************************)
\* the lines of a run that parseTable stores as data rows: the rows after
\* the first separator row that holds a pipe
DataLines(ls) ==
    LET p     == PipeLines(ls)
        seps  == {k \in DOMAIN p : isSeparatorRow(p[k])}
        first == IF seps = {} THEN Len(p) + 1
                 ELSE CHOOSE k \in seps : \A m \in seps : k <= m
    IN  SelectSeq(SubSeq(p, first + 1, Len(p)), LAMBDA ln : ~isSeparatorRow(ln))

\* cells drawn over n columns, as the claim has it
Padded(cells, n, empty) ==
    [i \in 1..n |-> IF i <= Len(cells) THEN cells[i] ELSE empty]

C14_RaggedRowsPadded ==
    /\ variant = "fyne" =>
           /\ \A k \in TableBlocks :
                  LET t == parseTable(blocks[k].lines)
                      d == DataLines(blocks[k].lines)
                  IN  /\ Len(t.dataRows) = Len(d)
                      /\ \A r \in DOMAIN d : t.dataRows[r] = parseTableRow(d[r])
           /\ \A j \in DOMAIN objects :
                  objects[j].kind = "Table" =>
                      LET t == parseTable(blocks[Nth(Rendering, j)].lines) IN
                      /\ objects[j].header = Padded(t.headers, t.numCols, << >>)
                      /\ objects[j].rows =
                             [r \in DOMAIN t.dataRows |->
                                 Padded(t.dataRows[r], t.numCols, << >>)]
    /\ variant = "gio" =>
           /\ \A j \in DOMAIN doc :
                  doc[j].type = "Table" =>
                      LET d == SelectSeq(doc[j].rows, LAMBDA row : ~row.isHeader)
                      IN  buildTableBlock(doc[j]).rows
                              = [r \in DOMAIN d |-> d[r].cells]
           /\ \A j \in DOMAIN previewBlocks :
                  LET b == previewBlocks[j] IN
                  b.kind = "tableBlock" =>
                      /\ tableRow(b.headers, b.numCols)
                             = Padded(b.headers, b.numCols, "")
                      /\ \A r \in DOMAIN b.rows :
                             tableRow(b.rows[r], b.numCols)
                                 = Padded(b.rows[r], b.numCols, "")

\* a drawn table with a data row shorter than the column count
C14_Witness ==
    /\ variant = "fyne"
    /\ \E j \in DOMAIN objects :
           /\ objects[j].kind = "Table"
           /\ \E r \in DOMAIN objects[j].rows :
                  /\ Len(parseTable(blocks[Nth(Rendering, j)].lines).dataRows[r])
                         < objects[j].numCols
                  /\ objects[j].rows[r][objects[j].numCols] = << >>

(***************************************************************************)
(* C15: in the binary policy the RichText objects are, in order, those of  *)
(* the non-table blocks whose lines joined with newlines hold something    *)
(* other than whitespace, each showing that joined text trimmed; a         *)
(* non-table block whose joined text is empty once trimmed gives no        *)
(* object, so no RichText shows an empty or whitespace-only text.          *)
(***************************************************************************)
\* the non-table blocks whose joined text is not whitespace only
TextRuns ==
    {k \in DOMAIN blocks :
        ~blocks[k].isTable /\ ~WhitespaceOnly(Join(blocks[k].lines, "\n"))}

RichTexts == {j \in DOMAIN objects : objects[j].kind = "RichText"}

C15_NoEmptyTextBlock ==
    variant = "fyne" =>
        /\ \A j \in RichTexts : ~WhitespaceOnly(objects[j].text)
        /\ ~WhitespaceOnly(content) =>
               /\ Cardinality(RichTexts) = Cardinality(TextRuns)
               /\ \A m \in 1..Cardinality(RichTexts) :
                      objects[Nth(RichTexts, m)].text =
                          TrimSpace(Join(blocks[Nth(TextRuns, m)].lines, "\n"))

\* a text block that shows its lines without their closing line break, and
\* another block of the same text that holds a blank line only
C15_Witness ==
    /\ variant = "fyne"
    /\ \E j \in RichTexts, k \in TextRuns :
           /\ objects[j].text = TrimSpace(Join(blocks[k].lines, "\n"))
           /\ objects[j].text # Join(blocks[k].lines, "\n")
    /\ \E k \in DOMAIN blocks :
           ~blocks[k].isTable /\ WhitespaceOnly(Join(blocks[k].lines, "\n"))

(***************************************************************************)
(* C16: parsing a text gives the same result at every call: whatever the   *)
(* order in which the keys of separatorAt are visited, and whatever texts  *)
(* the editor held before, splitMarkdownBlocks on the present text gives   *)
(* the fence flags, the separator rows, the table flags and the blocks     *)
(* that the last call gave, and renderMarkdown the same objects.           *)
(***************************************************************************)
C16_Deterministic ==
    variant = "fyne" =>
        \A order \in Orders(separatorAt) :
            /\ splitMarkdownBlocks(content, order) =
                   [lines |-> lines, inFence |-> inFence,
                    separatorAt |-> separatorAt,
                    isTableLine |-> isTableLine, blocks |-> blocks]
            /\ renderMarkdown(content, order) = objects

\* two separator rows in two runs, reached after other texts were parsed
C16_Witness ==
    /\ variant = "fyne"
    /\ \E s1, s2 \in separatorAt :
           /\ s1 + 1 < s2
           /\ WhitespaceOnly(lines[s1 + 1])
    /\ Len(blocks) >= 3

(***************************************************************************)
(* C17: in the structural policy an ordered list node gives one            *)
(* listGroupBlock with one item for each of the list's item children, in   *)
(* order, and the k-th item carries the bullet "k. ", k counted from 1:    *)
(* whatever numeral the list starts with in the source, and whatever lists *)
(* were converted before it.                                               *)
(***************************************************************************)
\* the node types nodeToBlock maps, with the block variant of each
VariantOf(type) ==
    CASE type = "Heading" -> "headingBlock"
      [] type = "Paragraph" -> "paragraphBlock"
      [] type \in {"FencedCodeBlock", "CodeBlock"} -> "codeBlock"
      [] type = "ThematicBreak" -> "hrBlock"
      [] type = "Blockquote" -> "blockquoteBlock"
      [] type = "List" -> "listGroupBlock"
      [] type = "Table" -> "tableBlock"
      [] OTHER -> "none"

\* the top-level nodes of a mapped type
Mapped == {j \in DOMAIN doc : VariantOf(doc[j].type) # "none"}

C17_OrderedBullets ==
    (variant = "gio" /\ gpc = "done") =>
        /\ Len(previewBlocks) = Cardinality(Mapped)
        /\ \A m \in DOMAIN previewBlocks :
               LET n == doc[Nth(Mapped, m)]
                   b == previewBlocks[m]
               IN  (n.type = "List" /\ n.ordered) =>
                       /\ b.kind = "listGroupBlock"
                       /\ Len(b.items) = Len(n.items)
                       /\ \A k \in DOMAIN b.items :
                              /\ b.items[k].bullet = <<k, ". ">>
                              /\ b.items[k].body = n.items[k].body

\* an ordered list of two items that starts at 7, converted after another
\* ordered list
C17_Witness ==
    /\ variant = "gio"
    /\ Len(doc) = 2
    /\ doc[1].type = "List" /\ doc[1].ordered /\ Len(doc[1].items) >= 1
    /\ doc[2].type = "List" /\ doc[2].ordered /\ doc[2].start = 7
    /\ Len(previewBlocks) = 2
    /\ Len(previewBlocks[2].items) = 2

(***************************************************************************)
(* C18: in the structural policy the blocks renderMarkdown returns are     *)
(* those of the top-level nodes of a mapped type (heading, paragraph,      *)
(* fenced or indented code, thematic break, block quote, list, table), one *)
(* block of the matching variant for each, in document order; a node of    *)
(* another type gives no block, and the nodes after it are converted all   *)
(* the same.                                                               *)
(***************************************************************************)
C18_OneBlockPerMappedNode ==
    (variant = "gio" /\ gpc = "done") =>
        /\ Len(previewBlocks) = Cardinality(Mapped)
        /\ \A m \in DOMAIN previewBlocks :
               LET n == doc[Nth(Mapped, m)]
                   b == previewBlocks[m]
               IN  /\ b.kind = VariantOf(n.type)
                   /\ n.type = "Heading" => b.level = n.level

\* a node without a mapping followed by a node that is converted
C18_Witness ==
    /\ variant = "gio"
    /\ Len(doc) = 2
    /\ VariantOf(doc[1].type) = "none"
    /\ Len(previewBlocks) = 1
    /\ previewBlocks[1].kind = VariantOf(doc[2].type)

(***************************************************************************)
(* C19: in both builds, once a handler that changes the editor text has    *)
(* run (typing, loadFile, createNewFile, openFolder), the preview is what  *)
(* renderMarkdown gives for the text the editor holds: all of it, and      *)
(* nothing left of the preview of an earlier text.                         *)
(***************************************************************************)
C19_PreviewFollowsEditor ==
    /\ variant = "fyne" =>
           \A order \in Orders(separatorsOf(content)) :
               objects = renderMarkdown(content, order)
    /\ variant = "gio" =>
           previewBlocks = renderMarkdownTree(gtext, goldmarkParse(gtext)).blocks

\* a file loaded over a text the user had typed, with a preview to show
C19_Witness ==
    /\ variant = "gio"
    /\ currentFile # NoPath
    /\ ~modified
    /\ gtext = <<"#", " ", "a">>
    /\ disk[currentFile] = gtext
    /\ previewBlocks # << >>

(***************************************************************************)
(* C20: unsaved edits are not thrown away unasked: a step that starts with *)
(* modified true, puts another text in the editor and leaves modified      *)
(* false is the answer to the confirmation for unsaved changes.  Opening   *)
(* a folder and creating a file do not keep this: openFolder and           *)
(* createNewFile replace the text and reset modified without asking.       *)
(***************************************************************************)
EditorText == IF variant = "fyne" THEN content ELSE gtext

C20_ConfirmBeforeDiscard ==
    [][(modified /\ EditorText' # EditorText /\ ~modified')
           => modal.kind = "confirm"]_vars

(***************************************************************************)
(* C21: confirmSwitch(target).  With modified false the target is loaded   *)
(* in the same step.  With modified true the step only puts the            *)
(* confirmation on show: currentFile, the editor text and modified stay as *)
(* they are until it is answered.  When the user cancels, currentFile, the *)
(* editor text and modified are unchanged and the current file is the      *)
(* selected one.  The Gio build does not keep the last part:               *)
(* FileTree.Layout has set selectedPath to the target before confirmSwitch *)
(* runs, and the cancel callback does not set it back.                     *)
(***************************************************************************)
C21_LoadsWhenClean ==
    /\ \A p \in Paths :
           (variant = "fyne" /\ ~modified /\ Fyne_confirmSwitch(p, TRUE)) =>
               /\ currentFile' = p
               /\ content' = disk[p]
               /\ modal' = NoModal
    /\ \A p \in Paths :
           (variant = "gio" /\ ~modified /\ Gio_TreePress(p, TRUE)) =>
               /\ currentFile' = p
               /\ gtext' = disk[p]
               /\ modal' = NoModal

C21_AsksWhenModified ==
    (modified /\ modal = NoModal /\ modal'.kind = "confirm") =>
        /\ modal'.target \in Paths
        /\ UNCHANGED <<currentFile, EditorText, modified>>

C21_CancelKeepsAll ==
    /\ (variant = "fyne" /\ modal.kind = "confirm"
            /\ \E readable \in BOOLEAN : Fyne_ConfirmAnswered(FALSE, readable)) =>
           UNCHANGED <<currentFile, EditorText, modified>>
    /\ (variant = "gio" /\ modal.kind = "confirm" /\ Gio_ModalCancel) =>
           /\ UNCHANGED <<currentFile, EditorText, modified>>
           /\ currentFile # NoPath => selectedPath' = currentFile

C21_ConfirmSwitchFrame ==
    [][C21_LoadsWhenClean /\ C21_AsksWhenModified /\ C21_CancelKeepsAll]_vars

(***************************************************************************)
(* C22: the loading guard.  loading is false whenever a handler has        *)
(* returned (it is true only inside loadFile and openFolder, around        *)
(* SetText); a step in which openFolder runs or loadFile succeeds ends     *)
(* with modified false; and modified turns true only in a step in which    *)
(* the editor reports a change of the user's, with loading false.          *)
(***************************************************************************)
\* openFolder runs in this step
OpensFolder ==
    \/ variant = "fyne" /\ Fyne_FolderChosen(TRUE)
    \/ variant = "gio" /\ openFolderCh # << >> /\ Gio_FrameDrain

\* loadFile runs in this step and reads the file
LoadsFile ==
    \/ variant = "fyne" /\ ~modified
           /\ \E p \in Paths : Fyne_confirmSwitch(p, TRUE)
    \/ variant = "fyne" /\ Fyne_ConfirmAnswered(TRUE, TRUE)
    \/ variant = "fyne" /\ modal' = NoModal
           /\ \E name \in Names \ {""} :
                  pathOf(name) \notin DOMAIN disk
                      /\ Fyne_FormAnswered(TRUE, name, TRUE, TRUE)
    \/ variant = "gio" /\ ~modified /\ \E p \in Paths : Gio_TreePress(p, TRUE)
    \/ variant = "gio" /\ modal.kind = "confirm"
           /\ \E name \in Names : Gio_ModalOK(name, TRUE, TRUE)
    \/ variant = "gio" /\ modal.kind = "input"
           /\ \E name \in Names \ {""} :
                  pathOf(name) \notin DOMAIN disk /\ Gio_ModalOK(name, TRUE, TRUE)

\* the editor reports a change made by the user
UserEdits ==
    \/ variant = "fyne" /\ \E text \in AppTexts : Fyne_OnChanged(text)
    \/ variant = "gio" /\ \E text \in AppTexts : Gio_ChangeEvent(text)

NewFileAnswered == modal.kind \in {"form", "input"} /\ modal' # modal

ReportsExists(p) ==
    IF variant = "fyne"
    THEN modal' = [kind |-> "error", what |-> alreadyExists(p)]
    ELSE status' = alreadyExists(p)

ReportsError ==
    IF variant = "fyne" THEN modal'.kind = "error" ELSE status' = "error"

\* C23: createNewFile never overwrites a file: answering the New File prompt
\* leaves every existing file as it is; an 'already exists' report names a
\* path that exists and comes with disk, currentFile, editor text and
\* modified unchanged, and with every path taken a non-empty name gets that
\* report; whenever nothing is created the state is unchanged; a change of
\* the open file or of the editor happens only together with the creation of
\* an empty file, which then is the file loaded, and a creation that is not
\* followed by the load is reported as an error; the rows of the Gio file
\* tree change only with a creation, and then show the new file.
C23_CreateNeverOverwrites ==
    [][NewFileAnswered =>
        /\ \A p \in DOMAIN disk : p \in DOMAIN disk' /\ disk'[p] = disk[p]
        /\ \A p \in Paths :
              ReportsExists(p) =>
                  /\ p \in DOMAIN disk
                  /\ disk' = disk /\ currentFile' = currentFile
                  /\ EditorText' = EditorText /\ modified' = modified
        /\ DOMAIN disk = Paths =>
              \/ \E p \in Paths : ReportsExists(p)
              \/ /\ modal' = NoModal /\ status' = status
                 /\ currentFile' = currentFile /\ EditorText' = EditorText
        /\ disk' = disk =>
              /\ currentFile' = currentFile /\ EditorText' = EditorText
              /\ modified' = modified
              /\ visible' = visible
        /\ disk' # disk =>
              \E p \in Paths \ DOMAIN disk :
                  /\ DOMAIN disk' = DOMAIN disk \cup {p}
                  /\ disk'[p] = << >>
                  /\ variant = "gio" =>
                        \E i \in DOMAIN visible' : visible'[i].path = p
                  /\ \/ /\ currentFile' = p /\ EditorText' = << >>
                        /\ ~modified'
                     \/ /\ ReportsError /\ currentFile' = currentFile
                        /\ EditorText' = EditorText /\ modified' = modified
    ]_vars

\* the status bar reports that a.md exists; a.md, the open b.md and the
\* unsaved edit are as they were
C23_Witness ==
    /\ variant = "gio"
    /\ status = alreadyExists("notes/a.md")
    /\ disk["notes/a.md"] = <<"a">>
    /\ currentFile = "notes/b.md"
    /\ modified

\* with no dialog or modal on show, saveFile is the one handler that writes
SaveWrites == modal = NoModal /\ modal' = NoModal /\ disk' # disk

SaveSucceeds ==
    /\ modal = NoModal
    /\ status' = "saved"
    /\ status # "saved" \/ disk' # disk \/ modified' # modified

SaveFails ==
    /\ modal = NoModal
    /\ IF variant = "fyne"
       THEN modal' = [kind |-> "error", what |-> "write"]
       ELSE status' = "error" /\ status # "error" /\ selectedPath' = selectedPath

\* C24: with no file open nothing is written and no 'Saved' appears; a
\* save that writes or reports 'Saved' happens with a file open, leaves that
\* file holding the editor text and every other file as it was, and ends
\* with modified false and the same currentFile and text; a failed write is
\* reported as an error and leaves disk, modified, currentFile and the text
\* as they were.
C24_SaveFile ==
    [][ /\ (modal = NoModal /\ modal' = NoModal /\ currentFile = NoPath) =>
              /\ disk' = disk
              /\ status' = "saved" => status = "saved"
        /\ (SaveWrites \/ SaveSucceeds) =>
              /\ currentFile # NoPath
              /\ DOMAIN disk' = DOMAIN disk
              /\ \A p \in DOMAIN disk :
                    disk'[p] = IF p = currentFile THEN EditorText ELSE disk[p]
              /\ ~modified'
              /\ status' = "saved"
              /\ currentFile' = currentFile /\ EditorText' = EditorText
        /\ SaveFails =>
              /\ disk' = disk /\ modified' = modified
              /\ currentFile' = currentFile /\ EditorText' = EditorText
    ]_vars

\* b.md was saved with the text typed into it
C24_Witness ==
    /\ variant = "fyne"
    /\ currentFile = "notes/b.md"
    /\ status = "saved"
    /\ content # << >>
    /\ disk[currentFile] = content
    /\ ~modified

\* what openFolder and the other handlers of the frame loop work on
AppState ==
    <<treeVars, disk, rootPath, currentFile, selectedPath, modified, loading,
      modal, status>>

\* a step of a picker goroutine: its picker returns, or it calls Invalidate
GoroutineStep == pickers' < pickers \/ invalidating' # invalidating

\* a path leaves the channel
Received == Len(openFolderCh') < Len(openFolderCh)

\* C25 (Gio): a step of a picker goroutine leaves the App state alone; a
\* returning picker sends nothing (cancelled, failed, empty path) or appends
\* one folder path to openFolderCh, which never holds more than its
\* capacity; the channel grows in no other step; rootPath changes only in a
\* step that takes the head of the channel off it, and every such step is
\* openFolder applied to that head; and a path in the channel is
\* eventually applied, the goroutine running on to its Invalidate and a
\* frame arriving after it.
C25_FolderChannel ==
    /\ [](Len(openFolderCh) <= ChCap)
    /\ [][ /\ GoroutineStep => AppState' = AppState
           /\ pickers' < pickers =>
                 /\ pickers' = pickers - 1
                 /\ \/ /\ openFolderCh' = openFolderCh
                       /\ invalidating' = invalidating
                    \/ /\ \E f \in Folders :
                              openFolderCh' = Append(openFolderCh, f)
                       /\ invalidating' = invalidating + 1
           /\ Len(openFolderCh') > Len(openFolderCh) => pickers' < pickers
           /\ rootPath' # rootPath => Received
           /\ Received =>
                 /\ ~GoroutineStep
                 /\ openFolderCh' = Tail(openFolderCh)
                 /\ rootPath' = Head(openFolderCh)
                 /\ currentFile' = NoPath /\ gtext' = << >>
                 /\ previewBlocks' = << >> /\ ~modified'
                 /\ status' = "folder"
         ]_vars
    /\ \A f \in Folders :
          (openFolderCh # << >> /\ Head(openFolderCh) = f)
              ~> (openFolderCh = << >> /\ rootPath = f /\ status = "folder")

\* "work" was applied after a file of "notes" was edited and saved; the
\* next path is in the channel, its goroutine has yet to call Invalidate,
\* and another picker is open
C25_Witness ==
    /\ variant = "folders"
    /\ rootPath = "work"
    /\ status = "folder"
    /\ disk["notes/a.md"] # <<"a">>
    /\ pickers = 1
    /\ openFolderCh = <<"notes">>
    /\ invalidating = 1

\* the paths of the rows
Rows == {visible[i].path : i \in DOMAIN visible}

\* what a directory listing shows of the folder: directories and .md files
\* that are not hidden
Listed ==
    {p \in Dirs \cup OtherFiles \cup DOMAIN disk :
        ~isHidden(p) /\ (p \in Dirs \/ isMarkdown(p))}

\* the directories above p and below the root
AncestorsOf(p) == {Dir(p), Dir(Dir(p)), Dir(Dir(Dir(p)))} \cap Dirs

\* the rows are the listed entries whose directory is the root, or is a row
\* itself and marked expanded
RowsAsExpanded ==
    /\ Rows \subseteq Listed
    /\ \A p \in Listed :
          p \in Rows <=>
              /\ rootPath # NoPath
              /\ \/ Dir(p) = rootPath
                 \/ Dir(p) \in Rows /\ Dir(p) \in expanded

\* pre-order: a row below the top has its directory as the nearest row
\* before it that is less deep, one level up; the first child follows its
\* directory directly; no path has two rows
PreOrder ==
    /\ \A i, j \in DOMAIN visible : i # j => visible[i].path # visible[j].path
    /\ \A i \in DOMAIN visible :
          visible[i].depth > 0 =>
              \E j \in 1..(i - 1) :
                  /\ visible[j].path = Dir(visible[i].path)
                  /\ visible[j].depth = visible[i].depth - 1
                  /\ \A m \in (j + 1)..(i - 1) :
                        visible[m].depth >= visible[i].depth
    /\ \A j \in DOMAIN visible :
          (/\ visible[j].path \in expanded
           /\ \E p \in Listed : Dir(p) = visible[j].path) =>
              /\ j + 1 \in DOMAIN visible
              /\ IF j + 1 \in DOMAIN visible
                 THEN Dir(visible[j + 1].path) = visible[j].path
                 ELSE FALSE

DepthIsAncestors ==
    \A i \in DOMAIN visible :
        visible[i].depth = Cardinality(AncestorsOf(visible[i].path))

\* C26 (Gio): in every state FileTree.visible is empty without a root and
\* otherwise lists, in pre-order, exactly the listed entries whose directory
\* is the root or is itself a row and marked expanded, each row with the
\* number of its ancestors below the root as depth; the expanded set changes
\* only by the press on the row of a directory, which toggles that
\* directory, and by Reset (openFolder), which empties it and leaves only
\* the root's direct children as rows; Refresh (after createNewFile) keeps
\* the expanded set and shows the new file.
C26_VisibleIsExpandedPreOrder ==
    /\ [](/\ rootPath = NoPath => visible = << >>
          /\ RowsAsExpanded
          /\ PreOrder
          /\ DepthIsAncestors)
    /\ [][ /\ Received =>
                 /\ expanded' = {}
                 /\ \A i \in DOMAIN visible' :
                       /\ visible'[i].depth = 0
                       /\ Dir(visible'[i].path) = rootPath'
           /\ disk' # disk =>
                 /\ expanded' = expanded
                 /\ DOMAIN disk' \ DOMAIN disk \subseteq
                        {visible'[i].path : i \in DOMAIN visible'}
           /\ (expanded' # expanded /\ ~Received) =>
                 \E i \in DOMAIN visible :
                     /\ visible[i].isDir
                     /\ expanded' =
                            (expanded \ {visible[i].path})
                                \cup ({visible[i].path} \ expanded)
         ]_vars

\* d and d/e are expanded, x.md is a row at depth 2, and b.md, created
\* since, is a row too
C26_Witness ==
    /\ variant = "tree"
    /\ expanded = {"notes/d", "notes/d/e"}
    /\ \E i \in DOMAIN visible :
          visible[i].path = "notes/d/e/x.md" /\ visible[i].depth = 2
    /\ "notes/b.md" \in Rows

\* sub is a contiguous part of s
Infix(sub, s) ==
    \E a \in 0..(Len(s) - Len(sub)) : SubSeq(s, a + 1, a + Len(sub)) = sub

\* the line is shown: in the text of a RichText, or as the header row or a
\* data row of a Table
LineShown(ln) ==
    \E j \in DOMAIN objects :
        IF objects[j].kind = "RichText"
        THEN Infix(TrimSpace(ln), objects[j].text)
        ELSE LET cells == Padded(parseTableRow(ln), objects[j].numCols, << >>)
             IN  /\ Contains(ln, "|")
                 /\ \/ objects[j].header = cells
                    \/ \E r \in DOMAIN objects[j].rows : objects[j].rows[r] = cells

\* C27 (binary policy): every line of the editor text that is not blank and
\* is not a separator row is shown by the preview.  The code does not keep
\* it: in a table run parseTable passes over a line without a pipe, a row
\* before the separator row is overwritten by the next one, and a run
\* without any row is dropped whole.
C27_NoSourceTextLost ==
    (variant = "fyne" /\ TrimSpace(content) # << >>) =>
        \A i \in DOMAIN lines :
            (TrimSpace(lines[i]) # << >> /\ i \notin separatorAt) =>
                LineShown(lines[i])

====
